---------------------------- MODULE Spec2Model ----------------------------
(***************************************************************************)
(* The rule evaluation engine of the Agile Anti-Pattern Scanner:           *)
(* apply_rules(df, rules_json) of agile_tool.py, over a pandas DataFrame   *)
(* that the caller owns and that apply_rules assigns columns into.         *)
(*                                                                         *)
(* A Python str is a sequence of one-character strings.  A DataFrame is a  *)
(* record [columns, rows]: the set of column names and the sequence of     *)
(* rows, each row a function from the column names to cells.  The inputs   *)
(* are DataFrames of dtype object (str, int and NaN cells); to_datetime    *)
(* and to_numeric assign typed columns (Timestamp/NaT, int64/float64).     *)
(* Around it, the session of the Streamlit application: login, logout, the *)
(* uploaders of the analysis page and the Run Analysis button.             *)
(***************************************************************************)
EXTENDS Integers, Sequences, FiniteSets, TLC

VARIABLES df, orig, catalog, now, calls, result, prev, trace,
          session_state, widgets, page, last

vars == <<df, orig, catalog, now, calls, result, prev, trace,
          session_state, widgets, page, last>>

---------------------------------------------------------------------------
(* Python str operations used by the engine.                               *)

UpperChars == <<"A","B","C","D","E","F","G","H","I","J","K","L","M",
                "N","O","P","Q","R","S","T","U","V","W","X","Y","Z">>

LowerChars == <<"a","b","c","d","e","f","g","h","i","j","k","l","m",
                "n","o","p","q","r","s","t","u","v","w","x","y","z">>

DigitChars == <<"0","1","2","3","4","5","6","7","8","9">>

\* str.isspace of one character
IsSpace(c) == c \in {" ", "\t", "\n", "\r"}

IsDigit(c) == \E i \in 1..10 : DigitChars[i] = c

DigitVal(c) == (CHOOSE i \in 1..10 : DigitChars[i] = c) - 1

LowerChar(c) ==
    IF \E i \in 1..26 : UpperChars[i] = c
    THEN LowerChars[CHOOSE i \in 1..26 : UpperChars[i] = c]
    ELSE c

\* str.lower()
Lower(s) == [i \in 1..Len(s) |-> LowerChar(s[i])]

\* str.strip(): leading and trailing whitespace removed
Strip(s) ==
    LET keep == {i \in 1..Len(s) : ~IsSpace(s[i])}
    IN  IF keep = {} THEN <<>>
        ELSE LET lo == CHOOSE i \in keep : \A j \in keep : i <= j
                 hi == CHOOSE i \in keep : \A j \in keep : i >= j
             IN  SubSeq(s, lo, hi)

\* len(s.split()): the number of maximal runs of non-whitespace
WordCount(s) ==
    Cardinality({i \in 1..Len(s) :
        /\ ~IsSpace(s[i])
        /\ (i = 1 \/ IsSpace(s[i-1]))})

\* sub in s (literal substring)
Contains(s, sub) ==
    \E i \in 1..(Len(s) - Len(sub) + 1) :
        \A j \in 1..Len(sub) : s[i + j - 1] = sub[j]

\* sep.join(parts)
RECURSIVE Join(_, _)
Join(parts, sep) ==
    IF Len(parts) = 0 THEN <<>>
    ELSE IF Len(parts) = 1 THEN parts[1]
    ELSE parts[1] \o sep \o Join(Tail(parts), sep)

\* str(n) of a non-negative int
RECURSIVE IntToStr(_)
IntToStr(n) ==
    IF n < 10 THEN <<DigitChars[n + 1]>>
    ELSE IntToStr(n \div 10) \o <<DigitChars[(n % 10) + 1]>>

\* int(s) of a non-empty string of digits
RECURSIVE DigitsToInt(_)
DigitsToInt(s) ==
    IF Len(s) = 0 THEN 0
    ELSE 10 * DigitsToInt(SubSeq(s, 1, Len(s) - 1)) + DigitVal(s[Len(s)])

IsDigits(s) == Len(s) > 0 /\ \A i \in 1..Len(s) : IsDigit(s[i])

---------------------------------------------------------------------------
(* re as used by Series.str.contains(pat, regex=True): re.compile(pat)     *)
(* then pat.search(x) per cell.  Patterns are over literal characters, the *)
(* wildcard ".", the alternation "|" and "(", which nothing closes.        *)

\* pat.split("|"): the alternatives of the pattern
RECURSIVE RegexAlternatives(_)
RegexAlternatives(pat) ==
    IF \A i \in 1..Len(pat) : pat[i] # "|" THEN <<pat>>
    ELSE LET bar == CHOOSE i \in 1..Len(pat) :
                        pat[i] = "|" /\ \A j \in 1..(i-1) : pat[j] # "|"
         IN  <<SubSeq(pat, 1, bar - 1)>>
                 \o RegexAlternatives(SubSeq(pat, bar + 1, Len(pat)))

\* re.compile raises re.error ("missing ), unterminated subpattern")
RegexCompileError(pat) == \E i \in 1..Len(pat) : pat[i] = "("

\* one alternative matches s starting at position i
RegexMatchAt(alt, s, i) ==
    /\ i + Len(alt) - 1 <= Len(s)
    /\ \A j \in 1..Len(alt) :
           IF alt[j] = "." THEN s[i + j - 1] # "\n" ELSE s[i + j - 1] = alt[j]

\* pat.search(s) is not None
RegexSearch(pat, s) ==
    LET alts == RegexAlternatives(pat)
    IN  \E a \in 1..Len(alts) : \E i \in 1..(Len(s) + 1) :
            RegexMatchAt(alts[a], s, i)

---------------------------------------------------------------------------
(* Dates.  A Timestamp cell holds the day number of its date (days since   *)
(* 1970-01-01; every Timestamp of the model is at midnight); the clock     *)
(* `now` is in hours since 1970-01-01 00:00.                               *)

\* the proleptic Gregorian day number of y-m-d
DaysFromCivil(y, m, d) ==
    LET yy  == IF m <= 2 THEN y - 1 ELSE y
        era == yy \div 400
        yoe == yy - era * 400
        mp  == IF m > 2 THEN m - 3 ELSE m + 9
        doy == (153 * mp + 2) \div 5 + d - 1
        doe == yoe * 365 + yoe \div 4 - yoe \div 100 + doy
    IN  era * 146097 + doe - 719468

\* the (year, month, day) of a day number
CivilFromDays(z) ==
    LET zz  == z + 719468
        era == zz \div 146097
        doe == zz - era * 146097
        yoe == (doe - doe \div 1460 + doe \div 36524 - doe \div 146096) \div 365
        doy == doe - (365 * yoe + yoe \div 4 - yoe \div 100)
        mp  == (5 * doy + 2) \div 153
        d   == doy - (153 * mp + 2) \div 5 + 1
        m   == IF mp < 10 THEN mp + 3 ELSE mp - 9
        y   == yoe + era * 400
    IN  <<IF m <= 2 THEN y + 1 ELSE y, m, d>>

IsLeap(y) == (y % 4 = 0 /\ y % 100 # 0) \/ y % 400 = 0

DaysInMonth(y, m) ==
    IF m = 2 THEN (IF IsLeap(y) THEN 29 ELSE 28)
    ELSE IF m \in {4, 6, 9, 11} THEN 30 ELSE 31

\* s is "YYYY-MM-DD" naming a day of the calendar
IsIsoDate(s) ==
    /\ Len(s) = 10
    /\ s[5] = "-" /\ s[8] = "-"
    /\ \A i \in {1, 2, 3, 4, 6, 7, 9, 10} : IsDigit(s[i])
    /\ LET y == DigitsToInt(SubSeq(s, 1, 4))
           m == DigitsToInt(SubSeq(s, 6, 7))
           d == DigitsToInt(SubSeq(s, 9, 10))
       IN  m \in 1..12 /\ d \in 1..DaysInMonth(y, m)

\* the day number of an ISO date string
ParseIsoDate(s) ==
    DaysFromCivil(DigitsToInt(SubSeq(s, 1, 4)),
                  DigitsToInt(SubSeq(s, 6, 7)),
                  DigitsToInt(SubSeq(s, 9, 10)))

\* zero-padded decimal of width w
Pad(n, w) ==
    LET t == IntToStr(n)
    IN  [i \in 1..(w - Len(t)) |-> "0"] \o t

\* str(Timestamp) of a midnight Timestamp in a datetime64 column
FormatDate(z) ==
    LET c == CivilFromDays(z)
    IN  Pad(c[1], 4) \o <<"-">> \o Pad(c[2], 2) \o <<"-">> \o Pad(c[3], 2)

---------------------------------------------------------------------------
(* Cells and DataFrames.  A cell is [k, s, n]: k its kind ("null" for      *)
(* NaN/NaT, "str", "int", "float" for an integral float, "date" for a      *)
(* Timestamp, "ns" for the int64 nanoseconds of a Timestamp, "inat" for the *)
(* int64 minimum that NaT is stored as), s the characters of a str, n the  *)
(* number or day number.                                                   *)

Null == [k |-> "null", s |-> <<>>, n |-> 0]

StrCell(chars) == [k |-> "str", s |-> chars, n |-> 0]

IntCell(v) == [k |-> "int", s |-> <<>>, n |-> v]

FloatCell(v) == [k |-> "float", s |-> <<>>, n |-> v]

DateCell(day) == [k |-> "date", s |-> <<>>, n |-> day]

\* the int64 a Timestamp is stored as: nanoseconds since 1970-01-01, held as
\* the day number
NsCell(day) == [k |-> "ns", s |-> <<>>, n |-> day]

\* the int64 NaT is stored as, -9223372036854775808
INaT == [k |-> "inat", s |-> <<>>, n |-> 0]

SecondsPerDay == 86400

NanosPerSecond == 1000000000

\* df.columns
Columns(d) == DOMAIN d.dtypes

NRows(d) == Len(d.rows)

\* df[col] as the sequence of its cells
Column(d, col) == [i \in 1..NRows(d) |-> d.rows[i][col]]

\* df[col] = cells, a Series of dtype dt, assigned into the DataFrame d
SetColumn(d, col, cells, dt) ==
    [dtypes |-> [c \in Columns(d) |-> IF c = col THEN dt ELSE d.dtypes[c]],
     rows   |-> [i \in 1..NRows(d) |->
                    [c \in Columns(d) |-> IF c = col THEN cells[i] ELSE d.rows[i][c]]]]

\* a variant of AscendingSeq that yields the positions last row first
RECURSIVE DescendingSeq(_)
DescendingSeq(S) ==
    IF S = {} THEN <<>>
    ELSE LET m == CHOOSE x \in S : \A y \in S : x >= y
         IN  <<m>> \o DescendingSeq(S \ {m})

\* the ascending sequence of a set of row positions: df[mask] keeps row order
RECURSIVE AscendingSeq(_)
AscendingSeq(S) ==
    IF S = {} THEN <<>>
    ELSE LET m == CHOOSE x \in S : \A y \in S : x <= y
         IN  <<m>> \o AscendingSeq(S \ {m})

\* Series.isnull() of one cell
IsNull(c) == c.k = "null"

\* Series.astype(str) of one cell of a column of dtype dt
AsStr(c, dt) ==
    CASE c.k = "str"   -> c.s
      [] c.k = "null"  -> IF dt = "datetime64" THEN <<"N","a","T">> ELSE <<"n","a","n">>
      [] c.k = "int"   -> IntToStr(c.n)
      [] c.k = "float" -> IntToStr(c.n) \o <<".","0">>
      [] c.k = "date"  -> FormatDate(c.n)
      [] c.k = "ns"    -> IF c.n = 0 THEN <<"0">>
                          ELSE IntToStr(c.n * SecondsPerDay)
                                 \o <<"0","0","0","0","0","0","0","0","0">>
      [] c.k = "inat"  -> <<"-","9","2","2","3","3","7","2","0","3","6",
                            "8","5","4","7","7","5","8","0","8">>

\* pd.to_datetime(errors='coerce') of one cell: a str is parsed, an int64 is
\* read as nanoseconds since 1970-01-01
ToDatetimeCell(c) ==
    CASE c.k = "str"  -> IF IsIsoDate(c.s) THEN DateCell(ParseIsoDate(c.s)) ELSE Null
      [] c.k = "null" -> Null
      [] c.k = "date" -> c
      [] c.k = "ns"   -> DateCell(c.n)
      [] c.k = "inat" -> Null

\* pd.to_datetime(df[col], errors='coerce')
ToDatetime(cells) == [i \in 1..Len(cells) |-> ToDatetimeCell(cells[i])]

\* pd.to_numeric(errors='coerce') of one cell of a column of dtype dt: a str
\* of digits parses, any other str (the strs of the model hold no sign, point
\* or exponent) is NaN; a datetime64 column is viewed as its int64 values
ToNumericCell(c, dt) ==
    CASE c.k = "str"   -> IF IsDigits(c.s) THEN IntCell(DigitsToInt(c.s)) ELSE Null
      [] c.k = "null"  -> IF dt = "datetime64" THEN INaT ELSE Null
      [] c.k = "int"   -> c
      [] c.k = "float" -> c
      [] c.k = "date"  -> NsCell(c.n)
      [] c.k = "ns"    -> c
      [] c.k = "inat"  -> c

\* the dtype of pd.to_numeric(series, errors='coerce'): float64 once a cell is
\* NaN or a float, int64 otherwise
ToNumericDtype(cells, dt) ==
    IF \E i \in 1..Len(cells) : ToNumericCell(cells[i], dt).k \in {"null", "float"}
    THEN "float64" ELSE "int64"

\* pd.to_numeric(df[col], errors='coerce')
ToNumeric(cells, dt) ==
    [i \in 1..Len(cells) |->
        LET c == ToNumericCell(cells[i], dt)
        IN  IF c.k = "int" /\ ToNumericDtype(cells, dt) = "float64"
            THEN FloatCell(c.n) ELSE c]

\* series < datetime (or >) raises TypeError: a str or number cell of an object
\* column, or any cell of a numeric column, does not order against a datetime;
\* a series without cells compares to an empty mask
DatetimeCompareRaises(cells, dt) ==
    CASE dt = "datetime64" -> FALSE
      [] dt = "object"     -> \E i \in 1..Len(cells) : cells[i].k \in {"str", "int", "float"}
      [] dt \in {"int64", "float64"} -> Len(cells) > 0

---------------------------------------------------------------------------
(* Rules.  A threshold is [t, n, s, l]: t the kind of the JSON value       *)
(* ("int", "str", "list" of strs, or "missing" when detection_logic has no *)
(* "threshold" key), n the number, s the str, l the list.                  *)

ThrInt(v) == [t |-> "int", n |-> v, s |-> <<>>, l |-> <<>>]

ThrStr(chars) == [t |-> "str", n |-> 0, s |-> chars, l |-> <<>>]

ThrList(words) == [t |-> "list", n |-> 0, s |-> <<>>, l |-> words]

ThrMissing == [t |-> "missing", n |-> 0, s |-> <<>>, l |-> <<>>]

\* the characters of the column names of the model
Spell ==
    [c \in {"Issue Key", "Summary", "Status", "Updated", "Story Points", "Due", "Sprint",
             "Description", "Acceptance Criteria", "Created"} |->
        CASE c = "Issue Key"    -> <<"I","s","s","u","e"," ","K","e","y">>
          [] c = "Description"  -> <<"D","e","s","c","r","i","p","t","i","o","n">>
          [] c = "Acceptance Criteria" ->
                <<"A","c","c","e","p","t","a","n","c","e"," ","C","r","i","t","e","r","i","a">>
          [] c = "Created"      -> <<"C","r","e","a","t","e","d">>
          [] c = "Summary"      -> <<"S","u","m","m","a","r","y">>
          [] c = "Status"       -> <<"S","t","a","t","u","s">>
          [] c = "Updated"      -> <<"U","p","d","a","t","e","d">>
          [] c = "Story Points" -> <<"S","t","o","r","y"," ","P","o","i","n","t","s">>
          [] c = "Due"          -> <<"D","u","e">>
          [] c = "Sprint"       -> <<"S","p","r","i","n","t">>]

InProgress == <<"I","n"," ","P","r","o","g","r","e","s","s">>

Unknown == <<"U","n","k","n","o","w","n">>

\* what one rule's logic block yields: the DataFrame as the block leaves it,
\* whether it raised, and the positions of flagged_rows in row order
Outcome(d, raised, rowset) ==
    [df |-> d, raised |-> raised, flagged |-> IF raised THEN <<>> ELSE AscendingSeq(rowset)]

\* df[field] raises KeyError when the DataFrame has no such column
NoSuchColumn(d, logic) == logic.field \notin Columns(d)

\* timedelta(days=logic["threshold"]) raises: KeyError without the key,
\* TypeError for a str or a list
TimedeltaRaises(thr) == thr.t \in {"missing", "str", "list"}

OlderThanDays(d, logic, clock) ==
    LET field  == logic.field
        cells  == Column(d, field)
        cutoff == clock - 24 * logic.threshold.n
    IN  IF TimedeltaRaises(logic.threshold) \/ DatetimeCompareRaises(cells, d.dtypes[field])
        THEN Outcome(d, TRUE, {})
        ELSE Outcome(d, FALSE,
                 {i \in 1..NRows(d) : cells[i].k = "date" /\ 24 * cells[i].n < cutoff})

IsEmpty(d, logic) ==
    LET field == logic.field
        cells == Column(d, field)
    IN  IF NoSuchColumn(d, logic) THEN Outcome(d, TRUE, {})
        ELSE Outcome(d, FALSE,
                    {i \in 1..NRows(d) :
                        \/ IsNull(cells[i])
                        \/ cells[i] = StrCell(<<>>)
                        \/ Strip(AsStr(cells[i], d.dtypes[field])) = <<>>})

\* cell > v of a numeric column: NaN is never greater; nanoseconds n * 86400
\* * 10^9 exceed v exactly when n exceeds v / 86400 / 10^9 rounded down
NumericGreater(c, v) ==
    CASE c.k \in {"int", "float"} -> c.n > v
      [] c.k = "ns"   -> c.n > (v \div SecondsPerDay) \div NanosPerSecond
      [] c.k = "inat" -> FALSE
      [] c.k = "null" -> FALSE

GreaterThan(d, logic) ==
    LET field == logic.field
        cells == ToNumeric(Column(d, field), d.dtypes[field])
        d1    == SetColumn(d, field, cells,
                           ToNumericDtype(Column(d, field), d.dtypes[field]))
    IN  IF NoSuchColumn(d, logic) THEN Outcome(d, TRUE, {})
        ELSE CASE logic.threshold.t \in {"missing", "str"} -> Outcome(d1, TRUE, {})
                  [] logic.threshold.t = "int" ->
                        Outcome(d1, FALSE,
                            {i \in 1..NRows(d) :
                                NumericGreater(cells[i], logic.threshold.n)})

\* the fixed window of created_after_sprint_start
SprintDays == 5

CreatedAfterSprintStart(d, logic, clock) ==
    LET field == logic.field
        cells == Column(d, field)
        sprint_start == clock - 24 * SprintDays
    IN  IF NoSuchColumn(d, logic) THEN Outcome(d, TRUE, {})
        ELSE IF DatetimeCompareRaises(cells, d.dtypes[field])
                THEN Outcome(d, TRUE, {})
                ELSE Outcome(d, FALSE,
                         {i \in 1..NRows(d) : cells[i].k = "date" /\ 24 * cells[i].n > sprint_start})

WordCountGreaterThan(d, logic) ==
    LET field == logic.field
        cells == Column(d, field)
    IN  IF NoSuchColumn(d, logic) THEN Outcome(d, TRUE, {})
        ELSE CASE logic.threshold.t \in {"missing", "str"} -> Outcome(d, TRUE, {})
                  [] logic.threshold.t = "int" ->
                        Outcome(d, FALSE,
                            {i \in 1..NRows(d) :
                                WordCount(AsStr(cells[i], d.dtypes[field])) > logic.threshold.n})

WordCountLessThan(d, logic) ==
    LET field == logic.field
        cells == Column(d, field)
        non_empty == {i \in 1..NRows(d) :
                         ~IsNull(cells[i]) /\ Strip(AsStr(cells[i], d.dtypes[field])) # <<>>}
    IN  IF NoSuchColumn(d, logic) THEN Outcome(d, TRUE, {})
        ELSE CASE logic.threshold.t = "missing" -> Outcome(d, TRUE, {})
                  [] logic.threshold.t = "str" -> Outcome(d, non_empty # {}, {})
                  [] logic.threshold.t = "int" ->
                        Outcome(d, FALSE,
                            {i \in non_empty :
                                WordCount(AsStr(cells[i], d.dtypes[field])) < logic.threshold.n})

DaysSinceLastUpdate(d, logic, clock) ==
    LET field == logic.field
    IN  IF "Status" \in Columns(d) /\ field \in Columns(d)
        THEN LET in_progress == {i \in 1..NRows(d) : d.rows[i]["Status"] = StrCell(InProgress)}
                 cells  == Column(d, field)
                 subset == [j \in 1..Cardinality(in_progress) |->
                               cells[AscendingSeq(in_progress)[j]]]
                 cutoff == clock - 24 * logic.threshold.n
             IN  IF TimedeltaRaises(logic.threshold)
                      \/ DatetimeCompareRaises(subset, d.dtypes[field])
                 THEN Outcome(d, TRUE, {})
                 ELSE Outcome(d, FALSE,
                          {i \in in_progress :
                              cells[i].k = "date" /\ 24 * cells[i].n < cutoff})
        ELSE Outcome(d, FALSE, {})

ContainsText(d, logic) ==
    LET field == logic.field
        cells == Column(d, field)
        pat   == CASE logic.threshold.t = "str" -> logic.threshold.s
                   [] logic.threshold.t = "int" -> IntToStr(logic.threshold.n)
                   [] logic.threshold.t = "missing" -> <<>>
    IN  IF NoSuchColumn(d, logic) THEN Outcome(d, TRUE, {})
        ELSE IF logic.threshold.t = "missing" \/ RegexCompileError(pat)
                THEN Outcome(d, TRUE, {})
                ELSE Outcome(d, FALSE,
                         {i \in 1..NRows(d) :
                             RegexSearch(Lower(pat), Lower(AsStr(cells[i], d.dtypes[field])))})

FieldsAreIdentical(d, logic) ==
    LET field == logic.field
        thr   == logic.threshold
    IN  CASE thr.t \in {"missing", "list"} -> Outcome(d, TRUE, {})
          [] thr.t = "int" -> Outcome(d, FALSE, {})
          [] thr.t = "str" ->
                IF field \in Columns(d) /\ \E c \in Columns(d) : Spell[c] = thr.s
                THEN LET target_field == CHOOSE c \in Columns(d) : Spell[c] = thr.s
                     IN  Outcome(d, FALSE,
                             {i \in 1..NRows(d) :
                                 /\ ~IsNull(d.rows[i][field])
                                 /\ ~IsNull(d.rows[i][target_field])
                                 /\ Strip(AsStr(d.rows[i][field], d.dtypes[field]))
                                      = Strip(AsStr(d.rows[i][target_field],
                                                    d.dtypes[target_field]))})
                ELSE Outcome(d, FALSE, {})

\* [x.lower() for x in logic["threshold"]]: the strs of a list, the
\* characters of a str
BadKeywords(thr) ==
    CASE thr.t = "list" -> [i \in 1..Len(thr.l) |-> Lower(thr.l[i])]
      [] thr.t = "str"  -> [i \in 1..Len(thr.s) |-> <<LowerChar(thr.s[i])>>]

TextContainsRegex(d, logic) ==
    LET field == logic.field
        cells == Column(d, field)
        thr   == logic.threshold
    IN  IF NoSuchColumn(d, logic) THEN Outcome(d, TRUE, {})
        ELSE IF thr.t \in {"missing", "int"}
                THEN Outcome(d, TRUE, {})
                ELSE LET pattern == Join(BadKeywords(thr), <<"|">>)
                     IN  IF RegexCompileError(pattern)
                         THEN Outcome(d, TRUE, {})
                         ELSE Outcome(d, FALSE,
                                  {i \in 1..NRows(d) :
                                      RegexSearch(pattern, Lower(AsStr(cells[i], d.dtypes[field])))})

---------------------------------------------------------------------------
(* apply_rules(df, rules_json).                                            *)

date_cols == <<"Updated", "Created", "Resolved">>

\* the date columns of the DataFrame parsed in place, before any rule
RECURSIVE CoerceDates(_, _)
CoerceDates(d, k) ==
    IF k > Len(date_cols) THEN d
    ELSE LET col == date_cols[k]
         IN  IF col \in Columns(d)
             THEN CoerceDates(
                      SetColumn(d, col, ToDatetime(Column(d, col)), "datetime64"), k + 1)
             ELSE CoerceDates(d, k + 1)

\* a variant of Skipped that tests Status for every operator
SkippedWithoutStatus(d, logic) ==
    /\ logic.field \notin Columns(d)
    /\ "Status" \notin Columns(d)

\* the "continue" of the column availability check
Skipped(d, logic) ==
    /\ logic.field \notin Columns(d)
    /\ \/ logic.operator # "days_since_last_update"
       \/ "Status" \notin Columns(d)

\* a variant of UnknownOperator with a final else that raises
UnknownOperatorRaises(d, logic) == Outcome(d, TRUE, {})

\* flagged_rows = pd.DataFrame(): what an operator no branch names is left with
UnknownOperator(d, logic) == Outcome(d, FALSE, {})

\* the logic blocks: the if / elif chain over logic["operator"]; an operator
\* that no branch names leaves flagged_rows the empty DataFrame
LogicBlock(d, logic, clock) ==
    CASE logic.operator = "older_than_days" ->
            IF logic.field \in Columns(d)
            THEN OlderThanDays(d, logic, clock) ELSE Outcome(d, FALSE, {})
      [] logic.operator = "is_empty" -> IsEmpty(d, logic)
      [] logic.operator = "greater_than" -> GreaterThan(d, logic)
      [] logic.operator = "created_after_sprint_start" ->
            CreatedAfterSprintStart(d, logic, clock)
      [] logic.operator = "word_count_greater_than" -> WordCountGreaterThan(d, logic)
      [] logic.operator = "word_count_less_than" -> WordCountLessThan(d, logic)
      [] logic.operator = "days_since_last_update" -> DaysSinceLastUpdate(d, logic, clock)
      [] logic.operator = "contains_text" -> ContainsText(d, logic)
      [] logic.operator = "fields_are_identical" -> FieldsAreIdentical(d, logic)
      [] logic.operator = "text_contains_regex" -> TextContainsRegex(d, logic)
      [] OTHER -> UnknownOperator(d, logic)

\* a variant of RowGet without the default
RowGetNoDefault(d, row, col) == IF col \in Columns(d) THEN row[col] ELSE Null

\* row.get(col, "Unknown")
RowGet(d, row, col) == IF col \in Columns(d) THEN row[col] ELSE StrCell(Unknown)

\* the dict appended for one row of flagged_rows
Violation(d, row, rule) ==
    [h \in {"Issue Key", "Summary", "Anti-Pattern", "Category", "Severity",
            "Violation Reason", "Suggested Remedy"} |->
        CASE h = "Issue Key"        -> RowGet(d, row, "Issue Key")
          [] h = "Summary"          -> RowGet(d, row, "Summary")
          [] h = "Anti-Pattern"     -> rule.name
          [] h = "Category"         -> rule.category
          [] h = "Severity"         -> rule.severity
          [] h = "Violation Reason" -> rule.description
          [] h = "Suggested Remedy" -> rule.remedy]

\* for idx, row in flagged_rows.iterrows(): violations.append({...}), on
\* what the logic block o of the rule yielded
Emit(o, rule) ==
    [df |-> o.df, raised |-> o.raised, flagged |-> o.flagged,
     violations |-> [j \in 1..Len(o.flagged) |->
                        Violation(o.df, o.df.rows[o.flagged[j]], rule)]]

\* one iteration of the loop over rules_json["anti_patterns"]: the rule met
\* with the DataFrame d.  flagged holds the row positions of the violations
\* appended, in the order appended.  rule["detection_logic"] raises KeyError
\* for a rule without that key.
RuleStep(d, rule, clock) ==
    IF "detection_logic" \notin DOMAIN rule
    THEN [df |-> d, raised |-> TRUE, flagged |-> <<>>, violations |-> <<>>]
    ELSE IF Skipped(d, rule.detection_logic)
         THEN [df |-> d, raised |-> FALSE, flagged |-> <<>>, violations |-> <<>>]
         ELSE Emit(LogicBlock(d, rule.detection_logic, clock), rule)

\* the state of the loop after the iteration st of the rule at position ri:
\* acc is [df, violations, trace, raised], trace the (rule position, row
\* position) of each violation
Extend(acc, st, ri) ==
    [df         |-> st.df,
     violations |-> acc.violations \o st.violations,
     trace      |-> acc.trace \o [j \in 1..Len(st.flagged) |-> <<ri, st.flagged[j]>>],
     raised     |-> st.raised]

\* the loop from rule ri on.  An exception ends the loop: what was assigned
\* into the DataFrame stays.
RECURSIVE RunRules(_, _, _, _)
RunRules(acc, rules, ri, clock) ==
    IF ri > Len(rules) \/ acc.raised THEN acc
    ELSE RunRules(Extend(acc, RuleStep(acc.df, rules[ri], clock), ri),
                  rules, ri + 1, clock)

\* apply_rules(df, rules_json) at the clock value `clock`;
\* rules_json["anti_patterns"] raises KeyError for a catalog without that key,
\* after the date columns were parsed
ApplyRules(d, rules_json, clock) ==
    IF "anti_patterns" \notin DOMAIN rules_json
    THEN [df |-> CoerceDates(d, 1), violations |-> <<>>, trace |-> <<>>, raised |-> TRUE]
    ELSE RunRules([df |-> CoerceDates(d, 1), violations |-> <<>>, trace |-> <<>>,
                   raised |-> FALSE],
                  rules_json.anti_patterns, 1, clock)

---------------------------------------------------------------------------
(* The inputs: datasets, catalogs and the reference clock.                 *)

\* the most rows of a dataset
MaxRows == 2

\* the most rules of a catalog
MaxRules == 2

\* the most calls of apply_rules on one DataFrame object
MaxCalls == 2

\* rows of a backlog export, over every column of the model
RowPool ==
    { [c \in {"Issue Key", "Summary", "Status", "Updated", "Story Points", "Due"} |->
          CASE c = "Issue Key"    -> StrCell(<<"A","1">>)
            [] c = "Summary"      -> StrCell(<<"F","i","x"," ","b","u","g">>)
            [] c = "Status"       -> StrCell(InProgress)
            [] c = "Updated"      -> StrCell(<<"2","0","2","5","-","0","7","-","0","1">>)
            [] c = "Story Points" -> StrCell(<<"1","4">>)
            [] c = "Due"          -> StrCell(<<"2","0","2","5","-","0","7","-","0","1">>)],
      [c \in {"Issue Key", "Summary", "Status", "Updated", "Story Points", "Due"} |->
          CASE c = "Issue Key"    -> StrCell(<<"A","2">>)
            [] c = "Summary"      -> StrCell(<<>>)
            [] c = "Status"       -> StrCell(<<"D","o","n","e">>)
            [] c = "Updated"      -> StrCell(<<"a","b","c">>)
            [] c = "Story Points" -> StrCell(<<"a","b","c">>)
            [] c = "Due"          -> Null],
      [c \in {"Issue Key", "Summary", "Status", "Updated", "Story Points", "Due"} |->
          CASE c = "Issue Key"    -> StrCell(<<"A","3">>)
            [] c = "Summary"      -> StrCell(<<"a"," ","b"," ","c"," ","d">>)
            [] c = "Status"       -> StrCell(InProgress)
            [] c = "Updated"      -> StrCell(<<"2","0","2","5","-","1","1","-","0","5">>)
            [] c = "Story Points" -> IntCell(20)
            [] c = "Due"          -> Null],
      [c \in {"Issue Key", "Summary", "Status", "Updated", "Story Points", "Due"} |->
          CASE c = "Issue Key"    -> StrCell(<<"A","4">>)
            [] c = "Summary"      -> Null
            [] c = "Status"       -> StrCell(<<"T","o"," ","D","o">>)
            [] c = "Updated"      -> Null
            [] c = "Story Points" -> StrCell(<<" "," ">>)
            [] c = "Due"          -> Null] }

\* the column sets of the datasets: the whole export, one without the key
\* and summary columns, one without Status, one without the date columns
ColumnSets ==
    { {"Issue Key", "Summary", "Status", "Updated", "Story Points", "Due"},
      {"Status", "Updated", "Story Points", "Due"},
      {"Issue Key", "Summary", "Updated", "Story Points"},
      {"Issue Key", "Summary", "Status", "Story Points"} }

\* the DataFrame of dtype object with the given columns of the given rows
Frame(cols, rows) ==
    [dtypes |-> [c \in cols |-> "object"],
     rows   |-> [i \in 1..Len(rows) |-> [c \in cols |-> rows[i][c]]]]

\* the sequences over S of length 1..n
SeqsUpTo(S, n) == UNION {[1..k -> S] : k \in 1..n}

Datasets == {Frame(cols, rows) : cols \in ColumnSets, rows \in SeqsUpTo(RowPool, MaxRows)}

Rule(id, name, category, severity, field, operator, threshold) ==
    [id |-> id, name |-> name, category |-> category, severity |-> severity,
     description |-> "why " \o id, remedy |-> "fix " \o id,
     detection_logic |-> [field |-> field, operator |-> operator, threshold |-> threshold]]

\* rules of the built-in catalog, rules an admin upload can hold, and rules
\* with an unknown operator or a threshold their operator cannot use
RulePool ==
    { Rule("BP-01", "Outdated Items", "Product Backlog", "Medium",
           "Updated", "older_than_days", ThrInt(90)),
      Rule("BP-01d", "Overdue Items", "Product Backlog", "Medium",
           "Due", "older_than_days", ThrInt(90)),
      Rule("BP-02", "Missing Story Points", "Product Backlog", "High",
           "Story Points", "is_empty", ThrInt(0)),
      Rule("BP-02u", "Missing Update Date", "Product Backlog", "Low",
           "Updated", "is_empty", ThrInt(0)),
      Rule("BP-02s", "Missing Summary", "Product Backlog", "Low",
           "Summary", "is_empty", ThrInt(0)),
      Rule("SP-01", "Oversized Item", "Sprint Planning", "Medium",
           "Story Points", "greater_than", ThrInt(13)),
      Rule("SP-01s", "Numeric Summary", "Quality", "Low",
           "Summary", "greater_than", ThrInt(13)),
      Rule("SP-01u", "Numeric Update Date", "Quality", "Low",
           "Updated", "greater_than", ThrInt(13)),
      Rule("ST-01", "Scope Creep", "Stakeholders", "High",
           "Updated", "created_after_sprint_start", ThrInt(0)),
      Rule("BP-04", "Long Summary", "Quality", "Low",
           "Summary", "word_count_greater_than", ThrInt(3)),
      Rule("BP-03", "Vague Story Points", "Quality", "High",
           "Story Points", "word_count_less_than", ThrInt(4)),
      Rule("SP-02", "Stagnant Work", "Sprint Execution", "High",
           "Updated", "days_since_last_update", ThrInt(5)),
      Rule("SP-02d", "Stagnant Due Date", "Sprint Execution", "Medium",
           "Due", "days_since_last_update", ThrInt(5)),
      Rule("QA-01", "Bug In Summary", "Quality", "Low",
           "Summary", "contains_text", ThrStr(<<"b","u","g">>)),
      Rule("PO-01", "Copy & Paste Product Owner", "Product Owner", "Medium",
           "Due", "fields_are_identical", ThrStr(Spell["Updated"])),
      Rule("SP-03", "The 'Hardening' Sprint", "Sprint Planning", "High",
           "Summary", "text_contains_regex", ThrList(<<<<"F","i","x">>, <<"C","l","e","a","n","u","p">>>>)),
      Rule("CUST-1", "Undersized Item", "Sprint Planning", "Low",
           "Story Points", "less_than", ThrInt(0)),
      Rule("BAD-1", "Oversized Item (text threshold)", "Sprint Planning", "Medium",
           "Story Points", "greater_than", ThrStr(<<"x">>)),
      Rule("BAD-2", "Outdated Items (no threshold)", "Product Backlog", "Medium",
           "Updated", "older_than_days", ThrMissing),
      Rule("BAD-3", "Hardening (numeric threshold)", "Sprint Planning", "High",
           "Summary", "text_contains_regex", ThrInt(0)),
      Rule("BAD-4", "Stagnant Work (text threshold)", "Sprint Execution", "High",
           "Updated", "days_since_last_update", ThrStr(<<"x">>)) }

Catalogs == {[anti_patterns |-> rules] : rules \in {<<>>} \cup SeqsUpTo(RulePool, MaxRules)}

\* the reference clock: 2025-11-06 12:00, in hours
Clocks == {24 * DaysFromCivil(2025, 11, 6) + 12}

\* the most keywords of a text_contains_regex rule
MaxKeywords == 2

\* Sprint cells: sprint names, an empty cell, a missing one
SprintCells ==
    { StrCell(<<"S","p","r","i","n","t"," ","1","0"," ","H","a","r","d","e","n","i","n","g">>), StrCell(<<"s","p","r","i","n","t"," ","1","1"," ","C","L","E","A","N","U","P">>), StrCell(<<"S","p","r","i","n","t"," ","1","0">>), StrCell(<<>>), Null }

SprintDatasets ==
    { Frame({"Issue Key", "Sprint"}, rows) :
        rows \in SeqsUpTo({ [c \in {"Issue Key", "Sprint"} |->
                                IF c = "Sprint" THEN cell ELSE StrCell(<<"A","1">>)] :
                            cell \in SprintCells }, MaxRows) }

\* keywords: words of the built-in catalog, and keywords with characters that
\* a regular expression reads as operators
KeywordPool == { <<"H","a","r","d","e","n","i","n","g">>, <<"C","l","e","a","n","u","p">>, <<"a","n">>, <<".">>, <<"S",".","r">>, <<"0","|","1">>, <<"(">> }

SprintCatalogs ==
    { [anti_patterns |->
          << Rule("SP-03", "The 'Hardening' Sprint", "Sprint Planning", "High",
                  "Sprint", "text_contains_regex", ThrList(words)) >>] :
        words \in {<<>>} \cup SeqsUpTo(KeywordPool, MaxKeywords) }

---------------------------------------------------------------------------
(* The application around apply_rules: the user database, the built-in     *)
(* catalog, the demo data, and the files a user uploads.                   *)

\* the mock user database
USERS ==
    [u \in {"coach", "sm", "developer", "po"} |->
        CASE u = "coach"     -> "admin123"
          [] u = "sm"        -> "scrum123"
          [] u = "developer" -> "code4life"
          [] u = "po"        -> "value99"]

\* a variant of check_login that accepts any password of a known user
CheckLoginAnyPassword(username, password) == username \in DOMAIN USERS

check_login(username, password) ==
    username \in DOMAIN USERS /\ USERS[username] = password

\* the built-in catalog; description and remedy are abbreviated
DEFAULT_KNOWLEDGE_BASE ==
    [meta_info |-> [version |-> "3.0", source |-> "The Scrum Anti-Patterns Guide"],
     anti_patterns |->
       << Rule("PO-01", "Copy & Paste Product Owner", "Product Owner", "Medium",
               "Summary", "fields_are_identical", ThrStr(Spell["Description"])),
          Rule("SP-03", "The 'Hardening' Sprint", "Sprint Planning", "High",
               "Sprint", "text_contains_regex",
               ThrList(<< <<"H","a","r","d","e","n","i","n","g">>,
                          <<"S","t","a","b","i","l","i","z","a","t","i","o","n">>,
                          <<"C","l","e","a","n","u","p">>,
                          <<"S","p","r","i","n","t"," ","0">> >>)),
          Rule("BP-01", "Outdated Items (Zombie Tickets)", "Product Backlog", "Medium",
               "Updated", "older_than_days", ThrInt(90)),
          Rule("BP-02", "Missing Acceptance Criteria", "Product Backlog", "High",
               "Acceptance Criteria", "is_empty", ThrInt(0)),
          Rule("SP-01", "Oversized Item (INVEST)", "Sprint Planning", "Medium",
               "Story Points", "greater_than", ThrInt(13)),
          Rule("ST-01", "Scope Creep (Flow Disruption)", "Stakeholders", "High",
               "Created", "created_after_sprint_start", ThrInt(0)),
          Rule("BP-03", "Vague Summary (Too Short)", "Quality", "High",
               "Summary", "word_count_less_than", ThrInt(4)),
          Rule("SP-02", "Stagnant Work (Fake Progress)", "Sprint Execution", "High",
               "Updated", "days_since_last_update", ThrInt(5)) >>]

\* an uploaded file: present is FALSE for None (no file in the uploader),
\* parses tells whether json.load / pd.read_csv succeeds, value is what it
\* returns
NoFile == [present |-> FALSE, parses |-> FALSE, value |-> <<>>]

File(value) == [present |-> TRUE, parses |-> TRUE, value |-> value]

BrokenFile == [present |-> TRUE, parses |-> FALSE, value |-> <<>>]

\* load_rules(uploaded_rules_file): the parsed JSON value as it is, the
\* built-in catalog for no file and for a file json.load raises on
load_rules(uploaded_rules_file) ==
    IF uploaded_rules_file.present
    THEN IF uploaded_rules_file.parses
         THEN uploaded_rules_file.value
         ELSE DEFAULT_KNOWLEDGE_BASE
    ELSE DEFAULT_KNOWLEDGE_BASE

\* pd.read_csv(io.StringIO(DEMO_DATA_CSV)): Story Points is read as int64,
\* the other columns as object; an empty field is NaN
DemoRows ==
    << ( "Issue Key" :> StrCell(<<"P","R","O","J","-","1","0","1">>)
        @@ "Summary" :> StrCell(<<"F","i","x"," ","t","h","e"," ","l","o","g","i","n"," ","b","u","t","t","o","n">>)
        @@ "Description" :> StrCell(<<"F","i","x"," ","t","h","e"," ","l","o","g","i","n"," ","b","u","t","t","o","n">>)
        @@ "Status" :> StrCell(<<"T","o"," ","D","o">>)
        @@ "Sprint" :> StrCell(<<"S","p","r","i","n","t"," ","1","0">>)
        @@ "Story Points" :> IntCell(3)
        @@ "Acceptance Criteria" :> StrCell(<<"U","s","e","r"," ","c","a","n"," ","c","l","i","c","k"," ","l","o","g","i","n">>)
        @@ "Created" :> StrCell(<<"2","0","2","5","-","1","1","-","0","1">>)
        @@ "Updated" :> StrCell(<<"2","0","2","5","-","1","1","-","1","0">>) ),
       ( "Issue Key" :> StrCell(<<"P","R","O","J","-","1","0","2">>)
        @@ "Summary" :> StrCell(<<"S","t","a","b","i","l","i","z","a","t","i","o","n"," ","P","h","a","s","e">>)
        @@ "Description" :> StrCell(<<"E","n","s","u","r","e"," ","t","h","e"," ","b","u","i","l","d"," ","i","s"," ","s","t","a","b","l","e"," ","b","e","f","o","r","e"," ","r","e","l","e","a","s","e">>)
        @@ "Status" :> StrCell(<<"T","o"," ","D","o">>)
        @@ "Sprint" :> StrCell(<<"S","p","r","i","n","t"," ","1","0"," ","H","a","r","d","e","n","i","n","g">>)
        @@ "Story Points" :> IntCell(8)
        @@ "Acceptance Criteria" :> StrCell(<<"N","o"," ","c","r","i","t","i","c","a","l"," ","b","u","g","s">>)
        @@ "Created" :> StrCell(<<"2","0","2","5","-","1","1","-","0","1">>)
        @@ "Updated" :> StrCell(<<"2","0","2","5","-","1","1","-","1","5">>) ),
       ( "Issue Key" :> StrCell(<<"P","R","O","J","-","1","0","3">>)
        @@ "Summary" :> StrCell(<<"L","e","g","a","c","y"," ","D","a","t","a","b","a","s","e"," ","M","i","g","r","a","t","i","o","n">>)
        @@ "Description" :> StrCell(<<"M","i","g","r","a","t","e"," ","S","Q","L"," ","t","o"," ","N","o","S","Q","L"," ","a","r","c","h","i","t","e","c","t","u","r","e">>)
        @@ "Status" :> StrCell(<<"B","a","c","k","l","o","g">>)
        @@ "Sprint" :> Null
        @@ "Story Points" :> IntCell(13)
        @@ "Acceptance Criteria" :> StrCell(<<"D","a","t","a"," ","i","n","t","e","g","r","i","t","y"," ","v","e","r","i","f","i","e","d">>)
        @@ "Created" :> StrCell(<<"2","0","2","2","-","0","5","-","2","0">>)
        @@ "Updated" :> StrCell(<<"2","0","2","3","-","0","1","-","1","5">>) ),
       ( "Issue Key" :> StrCell(<<"P","R","O","J","-","1","0","4">>)
        @@ "Summary" :> StrCell(<<"U","s","e","r"," ","P","r","o","f","i","l","e"," ","U","p","d","a","t","e">>)
        @@ "Description" :> StrCell(<<"A","l","l","o","w"," ","u","s","e","r","s"," ","t","o"," ","c","h","a","n","g","e"," ","t","h","e","i","r"," ","a","v","a","t","a","r">>)
        @@ "Status" :> StrCell(<<"T","o"," ","D","o">>)
        @@ "Sprint" :> StrCell(<<"S","p","r","i","n","t"," ","1","0">>)
        @@ "Story Points" :> IntCell(5)
        @@ "Acceptance Criteria" :> Null
        @@ "Created" :> StrCell(<<"2","0","2","5","-","1","1","-","0","5">>)
        @@ "Updated" :> StrCell(<<"2","0","2","5","-","1","1","-","1","8">>) ),
       ( "Issue Key" :> StrCell(<<"P","R","O","J","-","1","0","5">>)
        @@ "Summary" :> StrCell(<<"R","e","w","r","i","t","e"," ","E","n","t","i","r","e"," ","F","r","o","n","t","e","n","d">>)
        @@ "Description" :> StrCell(<<"R","e","w","r","i","t","e"," ","t","h","e"," ","e","n","t","i","r","e"," ","a","p","p","l","i","c","a","t","i","o","n"," ","i","n"," ","R","e","a","c","t">>)
        @@ "Status" :> StrCell(<<"T","o"," ","D","o">>)
        @@ "Sprint" :> StrCell(<<"S","p","r","i","n","t"," ","1","0">>)
        @@ "Story Points" :> IntCell(40)
        @@ "Acceptance Criteria" :> StrCell(<<"P","i","x","e","l"," ","p","e","r","f","e","c","t"," ","m","a","t","c","h">>)
        @@ "Created" :> StrCell(<<"2","0","2","5","-","1","1","-","0","1">>)
        @@ "Updated" :> StrCell(<<"2","0","2","5","-","1","1","-","1","5">>) ),
       ( "Issue Key" :> StrCell(<<"P","R","O","J","-","1","0","6">>)
        @@ "Summary" :> StrCell(<<"U","r","g","e","n","t"," ","M","a","r","k","e","t","i","n","g"," ","C","o","l","o","r"," ","C","h","a","n","g","e">>)
        @@ "Description" :> StrCell(<<"C","h","a","n","g","e"," ","t","h","e"," ","b","a","n","n","e","r"," ","t","o"," ","r","e","d">>)
        @@ "Status" :> StrCell(<<"T","o"," ","D","o">>)
        @@ "Sprint" :> StrCell(<<"S","p","r","i","n","t"," ","1","0">>)
        @@ "Story Points" :> IntCell(1)
        @@ "Acceptance Criteria" :> StrCell(<<"B","a","n","n","e","r"," ","i","s"," ","r","e","d">>)
        @@ "Created" :> StrCell(<<"2","0","2","5","-","1","1","-","2","1">>)
        @@ "Updated" :> StrCell(<<"2","0","2","5","-","1","1","-","2","1">>) ),
       ( "Issue Key" :> StrCell(<<"P","R","O","J","-","1","0","7">>)
        @@ "Summary" :> StrCell(<<"B","u","g"," ","f","i","x">>)
        @@ "Description" :> StrCell(<<"F","i","x","i","n","g"," ","t","h","e"," ","n","u","l","l"," ","p","o","i","n","t","e","r"," ","e","x","c","e","p","t","i","o","n">>)
        @@ "Status" :> StrCell(<<"T","o"," ","D","o">>)
        @@ "Sprint" :> StrCell(<<"S","p","r","i","n","t"," ","1","0">>)
        @@ "Story Points" :> IntCell(2)
        @@ "Acceptance Criteria" :> StrCell(<<"N","o"," ","c","r","a","s","h">>)
        @@ "Created" :> StrCell(<<"2","0","2","5","-","1","1","-","0","1">>)
        @@ "Updated" :> StrCell(<<"2","0","2","5","-","1","1","-","1","5">>) ),
       ( "Issue Key" :> StrCell(<<"P","R","O","J","-","1","0","8">>)
        @@ "Summary" :> StrCell(<<"S","e","a","r","c","h"," ","B","a","r"," ","L","o","g","i","c">>)
        @@ "Description" :> StrCell(<<"I","m","p","l","e","m","e","n","t"," ","f","u","z","z","y"," ","s","e","a","r","c","h"," ","a","l","g","o","r","i","t","h","m">>)
        @@ "Status" :> StrCell(<<"I","n"," ","P","r","o","g","r","e","s","s">>)
        @@ "Sprint" :> StrCell(<<"S","p","r","i","n","t"," ","1","0">>)
        @@ "Story Points" :> IntCell(5)
        @@ "Acceptance Criteria" :> StrCell(<<"R","e","t","u","r","n","s"," ","r","e","l","e","v","a","n","t"," ","r","e","s","u","l","t","s">>)
        @@ "Created" :> StrCell(<<"2","0","2","5","-","1","1","-","0","1">>)
        @@ "Updated" :> StrCell(<<"2","0","2","5","-","1","1","-","0","1">>) ),
       ( "Issue Key" :> StrCell(<<"P","R","O","J","-","1","0","9">>)
        @@ "Summary" :> StrCell(<<"V","a","l","i","d"," ","F","e","a","t","u","r","e">>)
        @@ "Description" :> StrCell(<<"A","s"," ","a"," ","u","s","e","r"," ","I"," ","w","a","n","t"," ","t","o"," ","l","o","g","o","u","t"," ","s","o"," ","t","h","a","t"," ","I"," ","a","m"," ","s","e","c","u","r","e">>)
        @@ "Status" :> StrCell(<<"D","o","n","e">>)
        @@ "Sprint" :> StrCell(<<"S","p","r","i","n","t"," ","1","0">>)
        @@ "Story Points" :> IntCell(3)
        @@ "Acceptance Criteria" :> StrCell(<<"S","e","s","s","i","o","n"," ","i","s"," ","c","l","e","a","r","e","d">>)
        @@ "Created" :> StrCell(<<"2","0","2","5","-","1","1","-","0","1">>)
        @@ "Updated" :> StrCell(<<"2","0","2","5","-","1","1","-","2","0">>) ),
       ( "Issue Key" :> StrCell(<<"P","R","O","J","-","1","1","0">>)
        @@ "Summary" :> StrCell(<<"S","p","r","i","n","t"," ","0"," ","S","e","t","u","p">>)
        @@ "Description" :> StrCell(<<"S","e","t"," ","u","p"," ","s","e","r","v","e","r","s"," ","a","n","d"," ","J","i","r","a"," ","p","r","o","j","e","c","t">>)
        @@ "Status" :> StrCell(<<"T","o"," ","D","o">>)
        @@ "Sprint" :> StrCell(<<"S","p","r","i","n","t"," ","0">>)
        @@ "Story Points" :> IntCell(5)
        @@ "Acceptance Criteria" :> StrCell(<<"S","e","r","v","e","r","s"," ","r","u","n","n","i","n","g">>)
        @@ "Created" :> StrCell(<<"2","0","2","5","-","1","1","-","0","1">>)
        @@ "Updated" :> StrCell(<<"2","0","2","5","-","1","1","-","1","0">>) ),
       ( "Issue Key" :> StrCell(<<"P","R","O","J","-","1","1","1">>)
        @@ "Summary" :> StrCell(<<"S","e","r","v","e","r">>)
        @@ "Description" :> StrCell(<<"S","e","t","u","p"," ","t","h","e"," ","s","e","r","v","e","r"," ","e","n","v","i","r","o","n","m","e","n","t","s">>)
        @@ "Status" :> StrCell(<<"T","o"," ","D","o">>)
        @@ "Sprint" :> StrCell(<<"S","p","r","i","n","t"," ","1","0">>)
        @@ "Story Points" :> IntCell(3)
        @@ "Acceptance Criteria" :> StrCell(<<"E","n","v"," ","i","s"," ","l","i","v","e">>)
        @@ "Created" :> StrCell(<<"2","0","2","5","-","1","1","-","0","1">>)
        @@ "Updated" :> StrCell(<<"2","0","2","5","-","1","1","-","0","1">>) ),
       ( "Issue Key" :> StrCell(<<"P","R","O","J","-","1","1","2">>)
        @@ "Summary" :> StrCell(<<"I","n","v","e","s","t","i","g","a","t","e"," ","A","P","I"," ","L","a","t","e","n","c","y">>)
        @@ "Description" :> StrCell(<<"L","o","o","k","i","n","g"," ","i","n","t","o"," ","w","h","y"," ","t","h","e"," ","A","P","I"," ","t","a","k","e","s"," ","2","0","0","0","m","s">>)
        @@ "Status" :> StrCell(<<"I","n"," ","P","r","o","g","r","e","s","s">>)
        @@ "Sprint" :> StrCell(<<"S","p","r","i","n","t"," ","1","0">>)
        @@ "Story Points" :> IntCell(5)
        @@ "Acceptance Criteria" :> StrCell(<<"R","o","o","t"," ","c","a","u","s","e"," ","i","d","e","n","t","i","f","i","e","d">>)
        @@ "Created" :> StrCell(<<"2","0","2","5","-","1","1","-","0","1">>)
        @@ "Updated" :> StrCell(<<"2","0","2","5","-","1","1","-","0","5">>) ),
       ( "Issue Key" :> StrCell(<<"P","R","O","J","-","1","1","3">>)
        @@ "Summary" :> StrCell(<<"R","e","f","a","c","t","o","r"," ","E","n","t","i","r","e"," ","B","a","c","k","e","n","d">>)
        @@ "Description" :> StrCell(<<"C","o","m","p","l","e","t","e"," ","o","v","e","r","h","a","u","l"," ","o","f"," ","m","i","c","r","o","s","e","r","v","i","c","e","s"," ","a","r","c","h","i","t","e","c","t","u","r","e">>)
        @@ "Status" :> StrCell(<<"T","o"," ","D","o">>)
        @@ "Sprint" :> StrCell(<<"S","p","r","i","n","t"," ","1","0">>)
        @@ "Story Points" :> IntCell(21)
        @@ "Acceptance Criteria" :> Null
        @@ "Created" :> StrCell(<<"2","0","2","5","-","1","1","-","0","1">>)
        @@ "Updated" :> StrCell(<<"2","0","2","5","-","1","1","-","0","1">>) ),
       ( "Issue Key" :> StrCell(<<"P","R","O","J","-","1","1","4">>)
        @@ "Summary" :> StrCell(<<"N","e","w"," ","C","E","O"," ","R","e","q","u","e","s","t">>)
        @@ "Description" :> StrCell(<<"A","d","d"," ","a"," ","f","l","y","i","n","g"," ","a","n","i","m","a","t","i","o","n"," ","t","o"," ","t","h","e"," ","l","o","g","o">>)
        @@ "Status" :> StrCell(<<"T","o"," ","D","o">>)
        @@ "Sprint" :> StrCell(<<"S","p","r","i","n","t"," ","1","0">>)
        @@ "Story Points" :> IntCell(2)
        @@ "Acceptance Criteria" :> StrCell(<<"A","n","i","m","a","t","i","o","n"," ","w","o","r","k","s">>)
        @@ "Created" :> StrCell(<<"2","0","2","5","-","1","1","-","2","0">>)
        @@ "Updated" :> StrCell(<<"2","0","2","5","-","1","1","-","2","0">>) ),
       ( "Issue Key" :> StrCell(<<"P","R","O","J","-","1","1","5">>)
        @@ "Summary" :> StrCell(<<"U","p","d","a","t","e"," ","W","i","k","i">>)
        @@ "Description" :> StrCell(<<"D","o","c","u","m","e","n","t","a","t","i","o","n"," ","n","e","e","d","s"," ","u","p","d","a","t","i","n","g"," ","f","o","r"," ","v","1",".","0">>)
        @@ "Status" :> StrCell(<<"B","a","c","k","l","o","g">>)
        @@ "Sprint" :> Null
        @@ "Story Points" :> IntCell(1)
        @@ "Acceptance Criteria" :> StrCell(<<"W","i","k","i"," ","u","p","d","a","t","e","d">>)
        @@ "Created" :> StrCell(<<"2","0","2","4","-","0","1","-","0","1">>)
        @@ "Updated" :> StrCell(<<"2","0","2","4","-","0","1","-","0","1">>) ),
       ( "Issue Key" :> StrCell(<<"P","R","O","J","-","1","1","6">>)
        @@ "Summary" :> StrCell(<<"T","e","c","h","n","i","c","a","l"," ","D","e","b","t"," ","C","l","e","a","n","u","p">>)
        @@ "Description" :> StrCell(<<"R","e","m","o","v","e"," ","u","n","u","s","e","d"," ","l","i","b","r","a","r","i","e","s"," ","a","n","d"," ","c","o","m","m","e","n","t","s">>)
        @@ "Status" :> StrCell(<<"T","o"," ","D","o">>)
        @@ "Sprint" :> StrCell(<<"S","p","r","i","n","t"," ","1","1"," ","C","l","e","a","n","u","p">>)
        @@ "Story Points" :> IntCell(5)
        @@ "Acceptance Criteria" :> StrCell(<<"L","i","b","s"," ","r","e","m","o","v","e","d">>)
        @@ "Created" :> StrCell(<<"2","0","2","5","-","1","1","-","0","1">>)
        @@ "Updated" :> StrCell(<<"2","0","2","5","-","1","1","-","0","1">>) ),
       ( "Issue Key" :> StrCell(<<"P","R","O","J","-","1","1","7">>)
        @@ "Summary" :> StrCell(<<"C","h","e","c","k"," ","l","o","g","s">>)
        @@ "Description" :> StrCell(<<"C","h","e","c","k"," ","l","o","g","s">>)
        @@ "Status" :> StrCell(<<"T","o"," ","D","o">>)
        @@ "Sprint" :> StrCell(<<"S","p","r","i","n","t"," ","1","0">>)
        @@ "Story Points" :> IntCell(1)
        @@ "Acceptance Criteria" :> StrCell(<<"L","o","g","s"," ","c","h","e","c","k","e","d">>)
        @@ "Created" :> StrCell(<<"2","0","2","5","-","1","1","-","0","1">>)
        @@ "Updated" :> StrCell(<<"2","0","2","5","-","1","1","-","0","1">>) ),
       ( "Issue Key" :> StrCell(<<"P","R","O","J","-","1","1","8">>)
        @@ "Summary" :> StrCell(<<"B","i","g"," ","D","a","t","a"," ","M","i","g","r","a","t","i","o","n">>)
        @@ "Description" :> StrCell(<<"M","o","v","e"," ","a","l","l"," ","p","e","t","a","b","y","t","e","s"," ","t","o"," ","S","3"," ","b","u","c","k","e","t","s">>)
        @@ "Status" :> StrCell(<<"I","n"," ","P","r","o","g","r","e","s","s">>)
        @@ "Sprint" :> StrCell(<<"S","p","r","i","n","t"," ","1","0">>)
        @@ "Story Points" :> IntCell(100)
        @@ "Acceptance Criteria" :> StrCell(<<"A","l","l"," ","d","a","t","a"," ","m","o","v","e","d">>)
        @@ "Created" :> StrCell(<<"2","0","2","5","-","1","1","-","0","1">>)
        @@ "Updated" :> StrCell(<<"2","0","2","5","-","1","1","-","0","1">>) ),
       ( "Issue Key" :> StrCell(<<"P","R","O","J","-","1","1","9">>)
        @@ "Summary" :> StrCell(<<"V","a","l","i","d"," ","U","s","e","r"," ","S","t","o","r","y">>)
        @@ "Description" :> StrCell(<<"A","s"," ","a","d","m","i","n"," ","I"," ","w","a","n","t"," ","t","o"," ","b","a","n"," ","u","s","e","r","s"," ","s","o"," ","I"," ","c","a","n"," ","m","o","d","e","r","a","t","e">>)
        @@ "Status" :> StrCell(<<"T","o"," ","D","o">>)
        @@ "Sprint" :> StrCell(<<"S","p","r","i","n","t"," ","1","0">>)
        @@ "Story Points" :> IntCell(3)
        @@ "Acceptance Criteria" :> StrCell(<<"B","a","n"," ","b","u","t","t","o","n"," ","f","u","n","c","t","i","o","n","s">>)
        @@ "Created" :> StrCell(<<"2","0","2","5","-","1","1","-","0","1">>)
        @@ "Updated" :> StrCell(<<"2","0","2","5","-","1","1","-","2","1">>) ),
       ( "Issue Key" :> StrCell(<<"P","R","O","J","-","1","2","0">>)
        @@ "Summary" :> StrCell(<<"A","n","o","t","h","e","r"," ","V","a","l","i","d"," ","S","t","o","r","y">>)
        @@ "Description" :> StrCell(<<"A","s"," ","u","s","e","r"," ","I"," ","w","a","n","t"," ","t","o"," ","r","e","s","e","t"," ","p","a","s","s","w","o","r","d">>)
        @@ "Status" :> StrCell(<<"T","o"," ","D","o">>)
        @@ "Sprint" :> StrCell(<<"S","p","r","i","n","t"," ","1","0">>)
        @@ "Story Points" :> IntCell(5)
        @@ "Acceptance Criteria" :> StrCell(<<"E","m","a","i","l"," ","s","e","n","t">>)
        @@ "Created" :> StrCell(<<"2","0","2","5","-","1","1","-","0","1">>)
        @@ "Updated" :> StrCell(<<"2","0","2","5","-","1","1","-","2","1">>) ) >>

DemoData ==
    [dtypes |-> [c \in DOMAIN DemoRows[1] |-> IF c = "Story Points" THEN "int64" ELSE "object"],
     rows   |-> DemoRows]

\* the JSON files of the model: a catalog of one rule, a JSON object without
\* "anti_patterns", a catalog whose rule has no "detection_logic", and a
\* file that is not JSON
RulesFiles ==
    { File([anti_patterns |->
               << Rule("BP-02s", "Missing Summary", "Product Backlog", "Low",
                       "Summary", "is_empty", ThrInt(0)) >>]),
      File([meta_info |-> [version |-> "3.0", source |-> "upload"]]),
      File([anti_patterns |-> << [id |-> "X-1", name |-> "Draft Rule"] >>]),
      BrokenFile }

\* the CSV files of the model: an export of two rows, and a file read_csv
\* raises on
DataFiles ==
    { File(Frame({"Issue Key", "Summary", "Status", "Updated", "Story Points", "Due"},
                 << CHOOSE r \in RowPool : r["Issue Key"] = StrCell(<<"A","1">>),
                    CHOOSE r \in RowPool : r["Issue Key"] = StrCell(<<"A","2">>) >>)),
      BrokenFile }

\* the names and passwords typed into the login form
Usernames == {"coach", "sm", "guest"}

Passwords == {"admin123", "scrum123"}

\* the session of a caller of apply_rules: the coach on the analysis page
CoachSession == [logged_in |-> TRUE, username |-> "coach", use_demo_data |-> FALSE]

NoWidgets == [uploaded_rules |-> NoFile, uploaded_data |-> NoFile]

Caller ==
    /\ session_state = CoachSession
    /\ widgets = NoWidgets
    /\ page = "analysis_page"
    /\ last = [event |-> "call", username |-> "", password |-> ""]

---------------------------------------------------------------------------
(* The state machine: a caller holds a DataFrame and calls apply_rules on  *)
(* it with a catalog, at most MaxCalls times.                              *)

NoResult == [raised |-> FALSE, violations |-> <<>>]

Init ==
    /\ df \in Datasets
    /\ orig = df
    /\ catalog \in Catalogs
    /\ now \in Clocks
    /\ calls = 0
    /\ result = NoResult
    /\ prev = NoResult
    /\ trace = <<>>
    /\ Caller

\* what the caller gets from a run: the violations, or the exception
ResultOf(r) == [raised |-> r.raised, violations |-> IF r.raised THEN <<>> ELSE r.violations]

\* the caller after the run r of apply_rules on its DataFrame
Returned(r) ==
    /\ df' = r.df
    /\ result' = ResultOf(r)
    /\ trace' = IF r.raised THEN <<>> ELSE r.trace

\* results = apply_rules(df, current_rules): the caller sees the violations
\* returned, or the exception, and its DataFrame as apply_rules left it
Evaluate ==
    /\ calls < MaxCalls
    /\ Returned(ApplyRules(df, catalog, now))
    /\ prev' = result
    /\ calls' = calls + 1
    /\ UNCHANGED <<orig, catalog, now, session_state, widgets, page, last>>

Next == Evaluate

Spec == Init /\ [][Next]_vars

\* the calls of apply_rules with one text_contains_regex rule on Sprint
InitSprint ==
    /\ df \in SprintDatasets
    /\ orig = df
    /\ catalog \in SprintCatalogs
    /\ now \in Clocks
    /\ calls = 0
    /\ result = NoResult
    /\ prev = NoResult
    /\ trace = <<>>
    /\ Caller

SpecSprint == InitSprint /\ [][Next]_vars

\* the most rules of a catalog of word-count, greater_than and is_empty rules
MaxWordRules == 3

\* the word_count_less_than, greater_than and is_empty rules on Story Points
\* and on Updated
WordRulePool ==
    {r \in RulePool : r.id \in {"BP-03", "SP-01", "BP-02", "SP-01u"}}
        \cup {Rule("BP-03u", "Vague Update Date", "Quality", "Low",
                   "Updated", "word_count_less_than", ThrInt(4))}

WordCatalogs ==
    {[anti_patterns |-> rules] : rules \in {<<>>} \cup SeqsUpTo(WordRulePool, MaxWordRules)}

\* the calls of apply_rules with catalogs of up to MaxWordRules of these rules
InitWords ==
    /\ df \in Datasets
    /\ orig = df
    /\ catalog \in WordCatalogs
    /\ now \in Clocks
    /\ calls = 0
    /\ result = NoResult
    /\ prev = NoResult
    /\ trace = <<>>
    /\ Caller

SpecWords == InitWords /\ [][Next]_vars

---------------------------------------------------------------------------
(* The session: every interaction of the user reruns main(), which renders *)
(* the login page or the analysis page.  session_state is                  *)
(* st.session_state, widgets the files held by the two file uploaders,     *)
(* page the page the last run rendered, last the interaction that caused   *)
(* it (with the name and password submitted, for a login).                 *)

\* the DataFrame of a session that has not run the analysis
NoData == Frame({}, <<>>)

\* main(): the page rendered for the session state ss
main(ss) == IF ~ss.logged_in THEN "login_page" ELSE "analysis_page"

\* analysis_page: current_user == "coach"
is_admin(ss) == ss.username = "coach"

\* analysis_page: the catalog in use, for the session ss and the uploaders w
current_rules(ss, w) ==
    IF is_admin(ss) THEN load_rules(w.uploaded_rules) ELSE DEFAULT_KNOWLEDGE_BASE

\* analysis_page: df, as a file whose present field tells df is not None
LoadData(ss, w) ==
    IF w.uploaded_data.present
    THEN IF w.uploaded_data.parses THEN w.uploaded_data ELSE NoFile
    ELSE IF ss.use_demo_data THEN File(DemoData) ELSE NoFile

\* a run that does not press Run Analysis shows no results
NoAnalysis ==
    /\ df' = NoData
    /\ orig' = NoData
    /\ catalog' = DEFAULT_KNOWLEDGE_BASE
    /\ calls' = 0
    /\ result' = NoResult
    /\ prev' = NoResult
    /\ trace' = <<>>
    /\ UNCHANGED now

Event(name) == [event |-> name, username |-> "", password |-> ""]

InitApp ==
    /\ df = NoData
    /\ orig = NoData
    /\ catalog = DEFAULT_KNOWLEDGE_BASE
    /\ now \in Clocks
    /\ calls = 0
    /\ result = NoResult
    /\ prev = NoResult
    /\ trace = <<>>
    /\ session_state = [logged_in |-> FALSE, username |-> "unknown", use_demo_data |-> FALSE]
    /\ widgets = NoWidgets
    /\ page = main(session_state)
    /\ last = Event("start")

\* login_page: the form submitted with a name and a password
Login ==
    \E username \in Usernames, password \in Passwords :
        /\ ~session_state.logged_in
        /\ session_state' =
               IF check_login(username, password)
               THEN [session_state EXCEPT !.logged_in = TRUE, !.username = username]
               ELSE session_state
        /\ page' = main(session_state')
        /\ last' = [event |-> "login", username |-> username, password |-> password]
        /\ UNCHANGED widgets
        /\ NoAnalysis

\* main: the Logout button of the sidebar.  The uploaders are not rendered
\* by the run that follows: they keep or lose their files.
Logout ==
    /\ session_state.logged_in
    /\ session_state' = [session_state EXCEPT !.logged_in = FALSE]
    /\ page' = main(session_state')
    /\ last' = Event("logout")
    /\ \E keep \in BOOLEAN : widgets' = IF keep THEN widgets ELSE NoWidgets
    /\ NoAnalysis

\* analysis_page: the rules uploader, rendered for the admin only
UploadRules ==
    \E f \in RulesFiles \cup {NoFile} :
        /\ session_state.logged_in
        /\ is_admin(session_state)
        /\ f # widgets.uploaded_rules
        /\ widgets' = [widgets EXCEPT !.uploaded_rules = f]
        /\ page' = main(session_state)
        /\ last' = Event("upload_rules")
        /\ UNCHANGED session_state
        /\ NoAnalysis

\* analysis_page: the data uploader; an uploaded file ends the demo mode
UploadData ==
    \E f \in DataFiles \cup {NoFile} :
        /\ session_state.logged_in
        /\ f # widgets.uploaded_data
        /\ widgets' = [widgets EXCEPT !.uploaded_data = f]
        /\ session_state' =
               IF f.present THEN [session_state EXCEPT !.use_demo_data = FALSE]
               ELSE session_state
        /\ page' = main(session_state')
        /\ last' = Event("upload_data")
        /\ NoAnalysis

\* analysis_page: the Use Demo Data button
UseDemoData ==
    /\ session_state.logged_in
    /\ session_state' =
           IF widgets.uploaded_data.present THEN session_state
           ELSE [session_state EXCEPT !.use_demo_data = TRUE]
    /\ page' = main(session_state')
    /\ last' = Event("demo")
    /\ UNCHANGED widgets
    /\ NoAnalysis

\* analysis_page: the Run Analysis button, rendered when df is not None:
\* results = apply_rules(df, current_rules) on the DataFrame this run read
RunAnalysis ==
    /\ session_state.logged_in
    /\ LoadData(session_state, widgets).present
    /\ orig' = LoadData(session_state, widgets).value
    /\ catalog' = current_rules(session_state, widgets)
    /\ Returned(ApplyRules(LoadData(session_state, widgets).value,
                           current_rules(session_state, widgets), now))
    /\ calls' = 1
    /\ prev' = NoResult
    /\ page' = main(session_state)
    /\ last' = Event("run")
    /\ UNCHANGED <<now, session_state, widgets>>

NextApp ==
    \/ Login
    \/ Logout
    \/ UploadRules
    \/ UploadData
    \/ UseDemoData
    \/ RunAnalysis

SpecApp == InitApp /\ [][NextApp]_vars

---------------------------------------------------------------------------
(* Properties.  Rules is the catalog's list; FirstRun(rules) is a call of  *)
(* apply_rules on the dataset as the caller built it.                      *)

Rules == catalog.anti_patterns

FirstRun(rules) == ApplyRules(orig, [anti_patterns |-> rules], now)

\* the list without its element at position ri
Without(rules, ri) == SubSeq(rules, 1, ri - 1) \o SubSeq(rules, ri + 1, Len(rules))

\* the row positions flagged by the rule at position ri in the last call
RowsOf(ri) == {trace[j][2] : j \in {j \in 1..Len(trace) : trace[j][1] = ri}}

\* the violations of the last call that the rule at position ri appended
Contribution(ri) ==
    LET js == {j \in 1..Len(trace) : trace[j][1] = ri}
        nth(k) == CHOOSE j \in js : Cardinality({i \in js : i < j}) = k - 1
    IN  [k \in 1..Cardinality(js) |-> result.violations[nth(k)]]

\* the operators the logic blocks name
OperatorKind ==
    {"older_than_days", "is_empty", "greater_than", "created_after_sprint_start",
     "word_count_greater_than", "word_count_less_than", "days_since_last_update",
     "contains_text", "fields_are_identical", "text_contains_regex"}

\* C1: apply_rules leaves the caller's dataset as it was: the same columns,
\* and in every cell the same value of the same kind.
C1_DatasetUnchanged == df = orig

\* C2: in a call that returns, each rule contributes exactly the violations it
\* yields when it is the only rule of the catalog, on the original dataset.
C2_RulesDoNotInteract ==
    (calls = 1 /\ ~result.raised) =>
        \A ri \in 1..Len(Rules) :
            LET alone == FirstRun(<<Rules[ri]>>)
            IN  ~alone.raised /\ Contribution(ri) = alone.violations

\* C3: a second call with the same dataset object, catalog and clock returns
\* what the first call returned.
C3_RepeatedCallsAgree == calls >= 2 => result = prev

\* C4: the violations returned are in the order of (rule position in the
\* catalog, row position in the dataset), strictly, and each is of the rule
\* its position names.
C4_OrderedByRuleThenRow ==
    /\ Len(result.violations) = Len(trace)
    /\ \A j \in 1..Len(trace) :
           result.violations[j]["Anti-Pattern"] = Rules[trace[j][1]].name
    /\ \A j, k \in 1..Len(trace) :
           j < k => \/ trace[j][1] < trace[k][1]
                    \/ trace[j][1] = trace[k][1] /\ trace[j][2] < trace[k][2]

\* two rules, the first of them days_since_last_update, each flag the two rows
C4_Witness ==
    /\ calls = 1
    /\ trace = << <<1, 1>>, <<1, 2>>, <<2, 1>>, <<2, 2>> >>
    /\ Rules[1].detection_logic.operator = "days_since_last_update"
    /\ Rules[2].detection_logic.operator = "word_count_less_than"

\* a threshold the rule's operator cannot use
Unusable(logic) ==
    \/ logic.operator \in {"greater_than", "older_than_days", "days_since_last_update"}
         /\ logic.threshold.t # "int"
    \/ logic.operator = "text_contains_regex" /\ logic.threshold.t # "list"
    \/ logic.operator \in OperatorKind \ {"is_empty", "created_after_sprint_start"}
         /\ logic.threshold.t = "missing"

\* C5: a rule with a threshold its operator cannot use contributes nothing and
\* the call returns what it returns for the catalog without that rule.
C5_UnusableThresholdSkipped ==
    calls = 1 =>
        \A ri \in 1..Len(Rules) :
            Unusable(Rules[ri].detection_logic) =>
                /\ RowsOf(ri) = {}
                /\ result = ResultOf(FirstRun(Without(Rules, ri)))

\* C6: a rule whose operator is not recognized contributes nothing, and the
\* call ends as it ends for the catalog without that rule: the same
\* violations or exception, the same dataset.
C6_UnknownOperatorSkipped ==
    calls = 1 =>
        \A ri \in 1..Len(Rules) :
            Rules[ri].detection_logic.operator \notin OperatorKind =>
                /\ RowsOf(ri) = {}
                /\ result = ResultOf(FirstRun(Without(Rules, ri)))
                /\ df = FirstRun(Without(Rules, ri)).df

\* a rule of an unknown operator on a column the dataset has, and after it a
\* rule that flags rows
C6_Witness ==
    /\ calls = 1
    /\ Len(Rules) = 2
    /\ Rules[1].detection_logic.operator \notin OperatorKind
    /\ Rules[1].detection_logic.field \in Columns(orig)
    /\ RowsOf(2) # {}

\* the column availability check of a rule against the dataset
Unavailable(d, logic) ==
    \/ logic.field \notin Columns(d)
    \/ logic.operator = "days_since_last_update" /\ "Status" \notin Columns(d)

\* C7: a rule whose field column is absent, and a days_since_last_update rule
\* whose field or Status column is absent, contributes nothing and raises
\* nothing: the call ends as it ends for the catalog without that rule.
C7_AbsentColumnSkipped ==
    calls = 1 =>
        \A ri \in 1..Len(Rules) :
            Unavailable(orig, Rules[ri].detection_logic) =>
                /\ RowsOf(ri) = {}
                /\ result = ResultOf(FirstRun(Without(Rules, ri)))
                /\ df = FirstRun(Without(Rules, ri)).df

\* a rule on an absent column, then a days_since_last_update rule on a present
\* column of old dates in a dataset without Status; the call returns
C7_Witness ==
    /\ calls = 1
    /\ ~result.raised
    /\ Len(Rules) = 2
    /\ Rules[1].detection_logic.field \notin Columns(orig)
    /\ Rules[1].detection_logic.operator = "older_than_days"
    /\ Rules[2].detection_logic.operator = "days_since_last_update"
    /\ Rules[2].detection_logic.field \in Columns(orig)
    /\ "Status" \notin Columns(orig)
    /\ \E i \in 1..NRows(df) :
           LET c == df.rows[i][Rules[2].detection_logic.field]
           IN  c.k = "date" /\ 24 * c.n < now - 24 * Rules[2].detection_logic.threshold.n

C10_OlderThanDaysAnyColumn ==
    (/\ calls = 1
     /\ Len(Rules) = 1
     /\ Rules[1].detection_logic.operator = "older_than_days"
     /\ Rules[1].detection_logic.threshold.t = "int"
     /\ Rules[1].detection_logic.field \in Columns(orig)) =>
        /\ ~result.raised
        /\ RowsOf(1) =
               {i \in 1..NRows(orig) :
                   LET c == orig.rows[i][Rules[1].detection_logic.field]
                   IN  /\ c.k = "str"
                       /\ IsIsoDate(c.s)
                       /\ 24 * ParseIsoDate(c.s)
                            < now - 24 * Rules[1].detection_logic.threshold.n}

\* C9: a text_contains_regex rule with a list of keywords does not fail, and
\* flags exactly the rows whose cell is text that, lowercased, contains one of
\* the lowercased keywords as a literal substring: no row for an empty list,
\* and never a missing cell.
C9_KeywordsAreLiteral ==
    (/\ calls = 1
     /\ Len(Rules) = 1
     /\ Rules[1].detection_logic.operator = "text_contains_regex"
     /\ Rules[1].detection_logic.threshold.t = "list"
     /\ Rules[1].detection_logic.field \in Columns(orig)) =>
        /\ ~result.raised
        /\ RowsOf(1) =
               {i \in 1..NRows(orig) :
                   LET c == orig.rows[i][Rules[1].detection_logic.field]
                       K == Rules[1].detection_logic.threshold.l
                   IN  /\ c.k = "str"
                       /\ \E k \in 1..Len(K) : Contains(Lower(c.s), Lower(K[k]))}

\* the cell is null, the empty string or whitespace only
Blank(c) == IsNull(c) \/ (c.k = "str" /\ Strip(c.s) = <<>>)

\* C11: in a call that returns, an is_empty rule on a column of the dataset
\* flags exactly the rows whose cell in the supplied dataset is null, the
\* empty string or whitespace only.
C11_IsEmptyFlagsBlankCells ==
    (calls = 1 /\ ~result.raised) =>
        \A ri \in 1..Len(Rules) :
            (/\ Rules[ri].detection_logic.operator = "is_empty"
             /\ Rules[ri].detection_logic.field \in Columns(orig)) =>
                RowsOf(ri) = {i \in 1..NRows(orig) :
                                 Blank(orig.rows[i][Rules[ri].detection_logic.field])}

\* C12: in a call that returns, a greater_than rule with a number as
\* threshold, on a column of the dataset, flags exactly the rows whose cell in
\* the supplied dataset parses as a number strictly greater than the
\* threshold; a cell that does not parse as a number is not flagged.
C12_GreaterThanFlagsNumbersAbove ==
    (calls = 1 /\ ~result.raised) =>
        \A ri \in 1..Len(Rules) :
            (/\ Rules[ri].detection_logic.operator = "greater_than"
             /\ Rules[ri].detection_logic.threshold.t = "int"
             /\ Rules[ri].detection_logic.field \in Columns(orig)) =>
                RowsOf(ri) =
                    {i \in 1..NRows(orig) :
                        LET c == ToNumericCell(orig.rows[i][Rules[ri].detection_logic.field],
                                               "object")
                        IN  c.k \in {"int", "float"}
                              /\ c.n > Rules[ri].detection_logic.threshold.n}

\* C13: a days_since_last_update rule alone in the catalog, with a number of
\* days N, on a dataset that has Status and the rule's field, does not fail,
\* and flags exactly the rows whose Status is "In Progress" and whose field
\* cell reads as a date before now - N days.
C13_DaysSinceLastUpdateInProgress ==
    (/\ calls = 1
     /\ Len(Rules) = 1
     /\ Rules[1].detection_logic.operator = "days_since_last_update"
     /\ Rules[1].detection_logic.threshold.t = "int"
     /\ Rules[1].detection_logic.field \in Columns(orig)
     /\ "Status" \in Columns(orig)) =>
        /\ ~result.raised
        /\ RowsOf(1) =
               {i \in 1..NRows(orig) :
                   LET c == orig.rows[i][Rules[1].detection_logic.field]
                   IN  /\ orig.rows[i]["Status"] = StrCell(InProgress)
                       /\ c.k = "str"
                       /\ IsIsoDate(c.s)
                       /\ 24 * ParseIsoDate(c.s)
                            < now - 24 * Rules[1].detection_logic.threshold.n}

\* C14: in a call that returns, a word_count_less_than rule with a number N
\* flags only rows whose cell in the supplied dataset is not blank and holds
\* fewer than N words, and no row is flagged on one field both by a
\* word_count_less_than rule and by an is_empty rule of the catalog.
C14_WordCountExcludesEmpty ==
    (calls = 1 /\ ~result.raised) =>
        /\ \A ri \in 1..Len(Rules) :
               (/\ Rules[ri].detection_logic.operator = "word_count_less_than"
                /\ Rules[ri].detection_logic.threshold.t = "int"
                /\ Rules[ri].detection_logic.field \in Columns(orig)) =>
                   \A i \in RowsOf(ri) :
                       LET c == orig.rows[i][Rules[ri].detection_logic.field]
                       IN  /\ ~Blank(c)
                           /\ WordCount(AsStr(c, "object"))
                                < Rules[ri].detection_logic.threshold.n
        /\ \A ri, rj \in 1..Len(Rules) :
               (/\ Rules[ri].detection_logic.operator = "word_count_less_than"
                /\ Rules[rj].detection_logic.operator = "is_empty"
                /\ Rules[ri].detection_logic.field = Rules[rj].detection_logic.field) =>
                   RowsOf(ri) \cap RowsOf(rj) = {}

\* C15: when the admin runs the analysis, the catalog passed to apply_rules
\* is the uploaded catalog if the file parses and the built-in catalog if
\* there is no file or it does not parse; and that catalog has an
\* anti_patterns list of rules with a detection_logic, so that apply_rules
\* iterates it and returns.
C15_LoadedCatalogIterable ==
    (last.event = "run" /\ is_admin(session_state)) =>
        /\ catalog = IF widgets.uploaded_rules.present /\ widgets.uploaded_rules.parses
                     THEN widgets.uploaded_rules.value
                     ELSE DEFAULT_KNOWLEDGE_BASE
        /\ "anti_patterns" \in DOMAIN catalog
        /\ \A ri \in 1..Len(catalog.anti_patterns) :
               "detection_logic" \in DOMAIN catalog.anti_patterns[ri]
        /\ ~result.raised

\* C16, the states: the analysis page is rendered only in a logged-in
\* session; after a login that left the session logged in, the name and
\* password submitted are an entry of USERS; after a logout the login page is
\* rendered; a catalog other than the built-in one is passed to apply_rules
\* only in a session whose username is "coach".
SessionGated ==
    /\ page = "analysis_page" => session_state.logged_in
    /\ (last.event = "login" /\ session_state.logged_in) =>
           /\ last.username \in DOMAIN USERS
           /\ USERS[last.username] = last.password
    /\ last.event = "logout" => page = "login_page" /\ ~session_state.logged_in
    /\ (last.event = "run" /\ catalog # DEFAULT_KNOWLEDGE_BASE) =>
           session_state.username = "coach"

\* C16, the steps: logged_in becomes true only by a login.
LoggedInByLogin ==
    (~session_state.logged_in /\ session_state'.logged_in) => last'.event = "login"

\* C16: session gating, over every sequence of logins, logouts, uploads and
\* runs: in every state SessionGated, and logged_in becomes true only by a
\* login with an entry of USERS.
C16_SessionGating == []SessionGated /\ [][LoggedInByLogin]_vars

\* a viewer runs the analysis on the demo data while the uploader still holds
\* the admin's catalog: the built-in catalog is passed, and finds violations
C16_Witness ==
    /\ last.event = "run"
    /\ session_state.username = "sm"
    /\ widgets.uploaded_rules.present
    /\ widgets.uploaded_rules.parses
    /\ orig = DemoData
    /\ catalog = DEFAULT_KNOWLEDGE_BASE
    /\ Len(result.violations) > 0

=============================================================================
